---- MODULE Spec2Model ----
(***************************************************************************)
(* routes_app: the HTTP handlers of app/api.py over the single PostgreSQL  *)
(* table "routes".  The table is a sequence of rows in insertion order;    *)
(* each handler is an operator from the committed table and the request to *)
(* the response and the table its connection leaves committed, and each    *)
(* action of Spec is one whole request.  CallsSpec runs the handlers of    *)
(* /routes/{route_id} statement by statement in concurrent worker threads. *)
(***************************************************************************)
EXTENDS Integers, Sequences, FiniteSets, TLC

VARIABLES
    routes,      \* committed rows of table routes, in insertion order
    now,         \* the database clock, as read by NOW()
    issued,      \* number of uuid4() values delivered so far
    last,        \* the most recent request and its response
    created201,  \* history: creates answered 201 since the last reset
    deleted200,  \* history: deletes answered 200 since the last reset
    submitted,   \* history: id -> body and createdAt of the create that made it
    touched,     \* history: ids a successful update, delete or reset has touched
    deletedIds,  \* history: ids whose DELETE answered 200
    calls        \* the handler calls the worker threads are running, by worker

vars == <<routes, now, issued, last, created201, deleted200, submitted,
          touched, deletedIds, calls>>

----------------------------------------------------------------------------
(* Bounds of the model *)

MaxReq == 3      \* requests per behaviour
MaxUuids == 2    \* distinct values uuid4() delivers
MaxClock == 1    \* largest reading of the database clock
MaxCalls == 2    \* handler calls running at the same time

(* Program constants, in the units of the model.  One unit of wall clock is *)
(* one unit of UTC offset.  TLC's integers are 32 bits wide, so integers    *)
(* of the program are counted in units of 2^20: the largest value of a      *)
(* 32-bit INTEGER column, 2^31 - 1, lies in unit 2047.                      *)
MagicWall == 2     \* the second 2022-08-01T21:20:53
PgIntMax == 2047   \* largest value of an INTEGER column
\* UTC offset of the session's TimeZone: get_conn sets none, so the server's
\* default applies, which is UTC
SessionTimeZone == 0

----------------------------------------------------------------------------
(* Datetimes.  A JSON timestamp is an ISO-8601 string: <<wall>> without a  *)
(* UTC offset, <<wall, off>> with one.  A Python datetime is naive or aware.*)

Walls == 1..2
Offsets == {0, 1}

IsoDates == {<<w>> : w \in Walls} \cup {<<w, o>> : w \in Walls, o \in Offsets}

\* pydantic's parse of a datetime field
ParseDatetime(s) ==
    IF Len(s) = 2 THEN [wall |-> s[1], aware |-> TRUE, off |-> s[2]]
                  ELSE [wall |-> s[1], aware |-> FALSE, off |-> 0]

\* datetime.isoformat()
isoformat(d) == IF d.aware THEN <<d.wall, d.off>> ELSE <<d.wall>>

\* datetime.replace(tzinfo=None)
ReplaceTzNone(d) == [wall |-> d.wall, aware |-> FALSE, off |-> 0]

\* a >= b raises TypeError between a naive and an aware datetime
CompareRaises(a, b) == a.aware # b.aware

\* a > b where the code compares with >=
DatetimeGt(a, b) == a.wall - a.off > b.wall - b.off

\* a >= b on two naive or two aware datetimes
DatetimeGe(a, b) == a.wall - a.off >= b.wall - b.off

\* psycopg2 sends an aware datetime as timestamptz and a naive one as
\* timestamp; a TIMESTAMP column stores a timestamptz as the wall clock of
\* the session's time zone, without offset.
PgTimestamp(d) ==
    IF d.aware THEN [wall |-> d.wall - d.off + SessionTimeZone, aware |-> FALSE,
                     off |-> 0]
               ELSE d

----------------------------------------------------------------------------
(* Route ids.  A path parameter is a string; the model keeps its spelling  *)
(* and the uuid it spells.                                                 *)

Uuids == 1..MaxUuids
NoRid == [form |-> "none", u |-> 0]
Canonical(u) == [form |-> "canonical", u |-> u]
RouteIdParams ==
    {Canonical(u) : u \in Uuids}
        \cup {[form |-> "urn", u |-> 1], [form |-> "garbage", u |-> 0]}

\* a generator that returns the same value again
uuid4_repeating(n) == 1

\* uuid.uuid4(), after n values were delivered: a value never delivered before
uuid4(n) == n + 1

\* uuid.UUID without the ValueError
UuidNeverRaises(rid) == FALSE

\* uuid.UUID(route_id) raises ValueError
UuidRaises(rid) == rid.form = "garbage"

\* PostgreSQL's uuid input rejects the urn:uuid: spelling uuid.UUID accepts
PgUuidRaises(rid) == rid.form # "canonical"

----------------------------------------------------------------------------
(* Request bodies *)

FlightIds == {"F1", "F2"}

StrFields == {"flightId", "sourceAirportCode", "sourceCountry",
              "destinyAirportCode", "destinyCountry"}

Body(f, c, s, e) ==
    [flightId |-> f, sourceAirportCode |-> "BOG", sourceCountry |-> "CO",
     destinyAirportCode |-> "LIM", destinyCountry |-> "PE", bagCost |-> c,
     plannedStartDate |-> s, plannedEndDate |-> e]

\* JSON bodies sent to POST /routes: every pair of timestamps, a second
\* flightId, and bodies with one empty string or an out-of-range bagCost
CreateBodies ==
    {Body("F1", 10, s, e) : s \in IsoDates, e \in IsoDates}
        \cup {[Body("F2", 0, <<1>>, <<2>>) EXCEPT ![f] = ""] : f \in StrFields}
        \cup {Body("F2", c, <<1>>, <<2>>) : c \in {-1, 0, PgIntMax + 1}}

\* JSON bodies sent to PATCH /routes/{id}; an absent key is a field left None
PatchBodies ==
    {<<>>}
        \cup {"flightId" :> f : f \in FlightIds}
        \cup {"sourceCountry" :> "X"}
        \cup {"bagCost" :> 20}
        \cup {"plannedStartDate" :> <<2, 1>>}
        \cup {("destinyAirportCode" :> "X") @@ ("plannedEndDate" :> <<2>>)}
        \cup {[sourceAirportCode |-> "X", sourceCountry |-> "X",
               destinyAirportCode |-> "X", destinyCountry |-> "X",
               flightId |-> "F3", bagCost |-> 30,
               plannedStartDate |-> <<1, 1>>, plannedEndDate |-> <<2, 0>>]}

\* class RouteCreate: the schema check FastAPI runs before the handler
RouteCreateValid(b) ==
    /\ \A f \in StrFields : Len(b[f]) >= 1
    /\ b.bagCost >= 0

\* class RouteCreate: the parsed payload
RouteCreate(b) ==
    [b EXCEPT !.plannedStartDate = ParseDatetime(@),
              !.plannedEndDate = ParseDatetime(@)]

\* class RouteUpdate: the fields of the payload that are not None
RouteUpdate(b) == DOMAIN b

----------------------------------------------------------------------------
(* The database *)

Naive(w) == [wall |-> w, aware |-> FALSE, off |-> 0]

\* the row INSERT builds: nine values from the request, created_at DEFAULT NOW()
InsertRow(u, payload, t) ==
    [id |-> u,
     flight_id |-> payload.flightId,
     source_airport_code |-> payload.sourceAirportCode,
     source_country |-> payload.sourceCountry,
     destiny_airport_code |-> payload.destinyAirportCode,
     destiny_country |-> payload.destinyCountry,
     bag_cost |-> payload.bagCost,
     planned_start_date |-> PgTimestamp(payload.plannedStartDate),
     planned_end_date |-> PgTimestamp(payload.plannedEndDate),
     created_at |-> Naive(t)]

Indexes(tbl) == 1..Len(tbl)

\* bag_cost INTEGER: a value outside 32 bits is "integer out of range"
IntegerOutOfRange(row) == row.bag_cost > PgIntMax \/ row.bag_cost < -PgIntMax - 1

\* the table without UNIQUE on flight_id: only the primary key collides
PrimaryKeyViolation(tbl, i, new) ==
    \E j \in Indexes(tbl) : j # i /\ tbl[j].id = new.id

\* id UUID PRIMARY KEY, flight_id TEXT NOT NULL UNIQUE: row i of tbl, given
\* the value new, collides with another row
UniqueViolation(tbl, i, new) ==
    \E j \in Indexes(tbl) :
        j # i /\ (tbl[j].flight_id = new.flight_id \/ tbl[j].id = new.id)

\* the message of the error PostgreSQL raises for a new value of row i
\* (i = 0: a new row), "" when it raises none
PgError(tbl, i, new) ==
    IF IntegerOutOfRange(new) THEN "integer out of range"
    ELSE IF UniqueViolation(tbl, i, new)
        THEN "duplicate key value violates unique constraint"
    ELSE ""

\* WHERE id = %s
FindById(tbl, u) == {i \in Indexes(tbl) : tbl[i].id = u}

\* with get_conn() as conn: psycopg2 commits when the block ends without an
\* exception and rolls back when it ends with one; the commit of a
\* transaction a failed statement aborted is a rollback
ConnExit(before, after, raised, aborted) ==
    IF raised \/ aborted THEN before ELSE after

Response(status, body, tbl) == [status |-> status, body |-> body, routes |-> tbl]

----------------------------------------------------------------------------
(* Handlers: the response, and the table the request leaves committed *)

InvalidDates == [msg |-> "Las fechas del trayecto no son validas"]

\* a match on a text PostgreSQL does not send
IsAlreadyExistsMessage(e) == e = "already exists"

\* str(e) of the insert's error names a duplicate key
IsDuplicateMessage(e) == e = "duplicate key value violates unique constraint"

\* the date checks of create_route: TRUE when the request is refused
DatesRefused(payload) ==
    LET start == payload.plannedStartDate
        end == payload.plannedEndDate
    IN  IF isoformat(start)[1] = MagicWall THEN TRUE
        ELSE IF ~CompareRaises(start, end) THEN DatetimeGe(start, end)
        ELSE DatetimeGe(ReplaceTzNone(start), ReplaceTzNone(end))

\* POST /routes, for a body that passed the schema check; route_id is the
\* value of uuid4() and t the reading of NOW()
create_route(tbl, b, route_id, t) ==
    LET payload == RouteCreate(b)
        row == InsertRow(route_id, payload, t)
        e == PgError(tbl, 0, row)
    IN  IF DatesRefused(payload) THEN Response(412, InvalidDates, tbl)
        ELSE IF e = ""
            THEN Response(201,
                          [id |-> Canonical(route_id),
                           createdAt |-> isoformat(row.created_at)],
                          ConnExit(tbl, Append(tbl, row), FALSE, FALSE))
        ELSE IF IsDuplicateMessage(e)
            THEN Response(412, [msg |-> "El flightId ya existe"],
                          ConnExit(tbl, tbl, FALSE, TRUE))
        ELSE Response(400, [detail |-> e], ConnExit(tbl, tbl, TRUE, TRUE))

InvalidId == [detail |-> "ID de ruta invalido"]
NotFound == [detail |-> "El trayecto no existe"]
\* an exception no handler catches: the framework answers 500
Unhandled(e, tbl) ==
    Response(500, [detail |-> e], tbl)

RouteJson(row) ==
    [id |-> Canonical(row.id),
     flightId |-> row.flight_id,
     sourceAirportCode |-> row.source_airport_code,
     sourceCountry |-> row.source_country,
     destinyAirportCode |-> row.destiny_airport_code,
     destinyCountry |-> row.destiny_country,
     bagCost |-> row.bag_cost,
     plannedStartDate |-> isoformat(row.planned_start_date),
     plannedEndDate |-> isoformat(row.planned_end_date),
     createdAt |-> isoformat(row.created_at)]

\* GET /routes/{route_id}
get_route(tbl, rid) ==
    IF UuidRaises(rid) THEN Response(400, InvalidId, tbl)
    ELSE IF PgUuidRaises(rid)
        THEN Unhandled("invalid input syntax for type uuid", tbl)
    ELSE IF FindById(tbl, rid.u) = {} THEN Response(404, NotFound, tbl)
    ELSE LET i == CHOOSE i \in FindById(tbl, rid.u) : TRUE
         IN  Response(200, RouteJson(tbl[i]), tbl)

\* the row UPDATE routes SET ... writes: one assignment per field of the
\* payload that is not None
SetClause(row, b) ==
    LET updates == RouteUpdate(b)
    IN  [row EXCEPT
            !.flight_id = IF "flightId" \in updates THEN b.flightId ELSE @,
            !.source_airport_code =
                IF "sourceAirportCode" \in updates THEN b.sourceAirportCode ELSE @,
            !.source_country =
                IF "sourceCountry" \in updates THEN b.sourceCountry ELSE @,
            !.destiny_airport_code =
                IF "destinyAirportCode" \in updates THEN b.destinyAirportCode ELSE @,
            !.destiny_country =
                IF "destinyCountry" \in updates THEN b.destinyCountry ELSE @,
            !.bag_cost = IF "bagCost" \in updates THEN b.bagCost ELSE @,
            !.planned_start_date =
                IF "plannedStartDate" \in updates
                    THEN PgTimestamp(ParseDatetime(b.plannedStartDate)) ELSE @,
            !.planned_end_date =
                IF "plannedEndDate" \in updates
                    THEN PgTimestamp(ParseDatetime(b.plannedEndDate)) ELSE @]

\* PATCH /routes/{route_id}
update_route(tbl, rid, b) ==
    IF UuidRaises(rid) THEN Response(400, InvalidId, tbl)
    ELSE IF PgUuidRaises(rid)
        THEN Unhandled("invalid input syntax for type uuid", ConnExit(tbl, tbl, TRUE, TRUE))
    ELSE IF FindById(tbl, rid.u) = {}
        THEN Response(404, NotFound, ConnExit(tbl, tbl, TRUE, FALSE))
    ELSE IF RouteUpdate(b) = {}
        THEN Response(400, [detail |-> "No hay campos para actualizar"],
                      ConnExit(tbl, tbl, TRUE, FALSE))
    ELSE LET i == CHOOSE i \in FindById(tbl, rid.u) : TRUE
             new == SetClause(tbl[i], b)
             e == PgError(tbl, i, new)
         IN  IF e # "" THEN Unhandled(e, ConnExit(tbl, tbl, TRUE, TRUE))
             ELSE Response(200,
                           [status |-> "trayecto actualizado",
                            msg |-> "el trayecto ha sido actualizado",
                            message |-> "trayecto actualizado"],
                           ConnExit(tbl, [tbl EXCEPT ![i] = new], FALSE, FALSE))

\* DELETE FROM routes WHERE id = %s
DeleteWhere(tbl, u) == SelectSeq(tbl, LAMBDA r : r.id # u)

\* delete_route without the rowcount check
delete_route_unchecked(tbl, rid) ==
    IF UuidRaises(rid) THEN Response(400, InvalidId, tbl)
    ELSE IF PgUuidRaises(rid)
        THEN Unhandled("invalid input syntax for type uuid", ConnExit(tbl, tbl, TRUE, TRUE))
    ELSE Response(200,
                  [status |-> "ok", message |-> "Trayecto eliminado",
                   msg |-> "el trayecto fue eliminado"],
                  ConnExit(tbl, DeleteWhere(tbl, rid.u), FALSE, FALSE))

\* DELETE /routes/{route_id}
delete_route(tbl, rid) ==
    IF UuidRaises(rid) THEN Response(400, InvalidId, tbl)
    ELSE IF PgUuidRaises(rid)
        THEN Unhandled("invalid input syntax for type uuid", ConnExit(tbl, tbl, TRUE, TRUE))
    ELSE LET after == DeleteWhere(tbl, rid.u)
             rowcount == Len(tbl) - Len(after)
         IN  IF rowcount = 0
                THEN Response(404, NotFound, ConnExit(tbl, after, TRUE, FALSE))
             ELSE Response(200,
                           [status |-> "ok", message |-> "Trayecto eliminado",
                            msg |-> "el trayecto fue eliminado"],
                           ConnExit(tbl, after, FALSE, FALSE))

\* GET /routes/count
count_routes(tbl) == Response(200, [count |-> Len(tbl)], tbl)

\* query strings sent to GET /routes; flight is <<>> when the parameter is
\* absent and <<f>> when it is supplied as f, limit 100 is the default
ListQueries ==
    {[skip |-> k, limit |-> n, flight |-> f] :
        k \in {0, 1}, n \in {1, 2}, f \in {<<>>, <<"F1">>}}
        \cup {[skip |-> 0, limit |-> 100, flight |-> <<"F2">>],
              [skip |-> 0, limit |-> 0, flight |-> <<>>],
              [skip |-> 0, limit |-> 2, flight |-> <<"">>],
              [skip |-> -1, limit |-> 1, flight |-> <<>>],
              [skip |-> 0, limit |-> -1, flight |-> <<"F1">>]}

\* if flight: None and the empty string are both false
FlightIsTruthy(flight) == flight # <<>> /\ flight[1] # ""

\* FROM routes [WHERE flight_id = %s]
WhereFlight(tbl, flight) ==
    IF FlightIsTruthy(flight)
        THEN SelectSeq(tbl, LAMBDA r : r.flight_id = flight[1])
        ELSE tbl

\* ORDER BY created_at DESC: every arrangement of the rows in which created_at
\* does not increase; rows of equal created_at come in any order
OrderByCreatedAtDesc(rows) ==
    LET n == Len(rows)
        perms == {p \in [1..n -> 1..n] :
                    /\ \A i, j \in 1..n : i # j => p[i] # p[j]
                    /\ \A i, j \in 1..n :
                        i < j => rows[p[i]].created_at.wall >= rows[p[j]].created_at.wall}
    IN  {[i \in 1..n |-> rows[p[i]]] : p \in perms}

\* LIMIT %s OFFSET %s over an ordered result, both non-negative
LimitOffset(s, limit, skip) ==
    LET hi == IF skip + limit < Len(s) THEN skip + limit ELSE Len(s)
    IN  SubSeq(s, skip + 1, hi)

\* GET /routes; sorted is the order the ORDER BY delivers the selected rows in
list_routes(tbl, q, sorted) ==
    IF q.skip < 0
        THEN Unhandled("OFFSET must not be negative", ConnExit(tbl, tbl, TRUE, TRUE))
    ELSE IF q.limit < 0
        THEN Unhandled("LIMIT must not be negative", ConnExit(tbl, tbl, TRUE, TRUE))
    ELSE LET rows == LimitOffset(sorted, q.limit, q.skip)
         IN  Response(200, [i \in 1..Len(rows) |-> RouteJson(rows[i])],
                      ConnExit(tbl, tbl, FALSE, FALSE))

\* reset_db without the TRUNCATE
reset_db_keeping(tbl) == ConnExit(tbl, tbl, FALSE, FALSE)

\* db.reset_db: ensure_schema(), then TRUNCATE TABLE routes, then commit
reset_db(tbl) == ConnExit(tbl, <<>>, FALSE, FALSE)

\* POST /reset and POST /routes/reset
reset(tbl) ==
    Response(200,
             [status |-> "ok", message |-> "Todos los datos fueron eliminados"],
             reset_db(tbl))

----------------------------------------------------------------------------
(* The state machine: one action per request *)

NoBody == <<>>

\* the worker threads that run the handlers (def handlers run in a thread pool)
Workers == 1..MaxCalls

NoWrite == [kind |-> "none", u |-> 0]

\* a worker that runs no handler
Idle ==
    [pc |-> "idle", op |-> "none", rid |-> NoRid, body |-> NoBody,
     conn |-> "none", stmts |-> 0, rowcount |-> 0, write |-> NoWrite,
     status |-> 0, resp |-> NoBody]

Init ==
    /\ calls = [w \in Workers |-> Idle]
    /\ routes = <<>>
    /\ now = 0
    /\ issued = 0
    /\ last = [n |-> 0, op |-> "none", rid |-> NoRid, body |-> NoBody,
               status |-> 0, resp |-> NoBody]
    /\ created201 = 0
    /\ deleted200 = 0
    /\ submitted = <<>>
    /\ touched = {}
    /\ deletedIds = {}

Served(op, rid, b, r) ==
    [n |-> last.n + 1, op |-> op, rid |-> rid, body |-> b,
     status |-> r.status, resp |-> r.body]

\* main.validation_exception_handler: a body the schema rejects answers 400
\* before the handler runs
validation_exception_handler(tbl) ==
    Response(400, [detail |-> "validation error"], tbl)

\* NOW(): the clock does not run backwards; it is read from the first insert
\* on, so the first reading is 0
NowReadings == {t \in {now, now + 1} : t <= MaxClock /\ (issued = 0 => t = 0)}

PostRoute ==
    /\ last.n < MaxReq
    /\ issued < MaxUuids
    /\ \E b \in CreateBodies, t \in NowReadings :
        /\ LET route_id == uuid4(issued)
               r == IF RouteCreateValid(b)
                        THEN create_route(routes, b, route_id, t)
                        ELSE validation_exception_handler(routes)
               ok == r.status = 201
           IN  /\ routes' = r.routes
               /\ last' = Served("POST /routes", NoRid, b, r)
               /\ issued' = IF ok THEN issued + 1 ELSE issued
               /\ now' = IF ok THEN t ELSE now
               /\ created201' = IF ok THEN created201 + 1 ELSE created201
               /\ submitted' =
                    IF ok THEN submitted @@
                               (route_id :> [body |-> b, createdAt |-> r.body.createdAt])
                          ELSE submitted
    /\ UNCHANGED <<deleted200, touched, deletedIds, calls>>

GetRoute ==
    /\ last.n < MaxReq
    /\ \E rid \in RouteIdParams :
        LET r == get_route(routes, rid)
        IN  /\ routes' = r.routes
            /\ last' = Served("GET /routes/{id}", rid, NoBody, r)
    /\ UNCHANGED <<now, issued, created201, deleted200, submitted, touched,
                   deletedIds, calls>>

PatchRoute ==
    /\ last.n < MaxReq
    /\ \E rid \in RouteIdParams, b \in PatchBodies :
        LET r == update_route(routes, rid, b)
        IN  /\ routes' = r.routes
            /\ last' = Served("PATCH /routes/{id}", rid, b, r)
            /\ touched' = IF r.status = 200 THEN touched \cup {rid.u} ELSE touched
    /\ UNCHANGED <<now, issued, created201, deleted200, submitted, deletedIds, calls>>

DeleteRoute ==
    /\ last.n < MaxReq
    /\ \E rid \in RouteIdParams :
        LET r == delete_route(routes, rid)
            ok == r.status = 200
        IN  /\ routes' = r.routes
            /\ last' = Served("DELETE /routes/{id}", rid, NoBody, r)
            /\ deleted200' = IF ok THEN deleted200 + 1 ELSE deleted200
            /\ deletedIds' = IF ok THEN deletedIds \cup {rid.u} ELSE deletedIds
            /\ touched' = IF ok THEN touched \cup {rid.u} ELSE touched
    /\ UNCHANGED <<now, issued, created201, submitted, calls>>

CountRoutes ==
    /\ last.n < MaxReq
    /\ LET r == count_routes(routes)
       IN  /\ routes' = r.routes
           /\ last' = Served("GET /routes/count", NoRid, NoBody, r)
    /\ UNCHANGED <<now, issued, created201, deleted200, submitted, touched,
                   deletedIds, calls>>

ListRoutes ==
    /\ last.n < MaxReq
    /\ \E q \in ListQueries :
        \E sorted \in OrderByCreatedAtDesc(WhereFlight(routes, q.flight)) :
            LET r == list_routes(routes, q, sorted)
            IN  /\ routes' = r.routes
                /\ last' = Served("GET /routes", NoRid, q, r)
    /\ UNCHANGED <<now, issued, created201, deleted200, submitted, touched,
                   deletedIds, calls>>

Reset ==
    /\ last.n < MaxReq
    /\ \E path \in {"POST /reset", "POST /routes/reset"} :
        LET r == reset(routes)
        IN  /\ routes' = r.routes
            /\ last' = Served(path, NoRid, NoBody, r)
    /\ created201' = 0
    /\ deleted200' = 0
    /\ touched' = touched \cup (1..issued)
    /\ UNCHANGED <<now, issued, submitted, deletedIds, calls>>

Next ==
    \/ PostRoute
    \/ GetRoute
    \/ PatchRoute
    \/ DeleteRoute
    \/ CountRoutes
    \/ ListRoutes
    \/ Reset

Spec == Init /\ [][Next]_vars

----------------------------------------------------------------------------
(* The handlers of /routes/{route_id} statement by statement, as the worker *)
(* threads interleave them.  Each call has its own connection, hence its    *)
(* own transaction at PostgreSQL's default isolation level READ COMMITTED:  *)
(* a statement reads the committed table, a row another transaction has     *)
(* written is locked until that transaction ends, and a write reaches the   *)
(* committed table when the connection's with block ends without exception. *)

history == <<now, issued, last, created201, deleted200, submitted, touched,
             deletedIds>>

\* the table after one accepted POST /routes, with its history
FirstBody == Body("F1", 10, <<1>>, <<2>>)
FirstCreate == create_route(<<>>, FirstBody, uuid4(0), 0)

CallsInit ==
    /\ routes = FirstCreate.routes
    /\ now = 0
    /\ issued = 1
    /\ last = [n |-> 1, op |-> "POST /routes", rid |-> NoRid, body |-> FirstBody,
               status |-> FirstCreate.status, resp |-> FirstCreate.body]
    /\ created201 = 1
    /\ deleted200 = 0
    /\ submitted = (uuid4(0) :> [body |-> FirstBody,
                                 createdAt |-> FirstCreate.body.createdAt])
    /\ touched = {}
    /\ deletedIds = {}
    /\ calls = [w \in Workers |-> Idle]

\* the bodies update_route and delete_route return
UpdatedBody ==
    [status |-> "trayecto actualizado", msg |-> "el trayecto ha sido actualizado",
     message |-> "trayecto actualizado"]
DeletedBody ==
    [status |-> "ok", message |-> "Trayecto eliminado",
     msg |-> "el trayecto fue eliminado"]

IdOps == {"GET /routes/{id}", "PATCH /routes/{id}", "DELETE /routes/{id}"}

\* bodies of the PATCH calls
CallPatchBodies == {b \in PatchBodies : DOMAIN b \subseteq {"bagCost"}}

\* the row with id u carries a write of a transaction other than w's
LockedByOther(w, u) ==
    \E v \in Workers \ {w} :
        calls[v].write.kind # "none" /\ calls[v].write.u = u

\* raise inside the with block: the answer is fixed, the block is still to end
Raise(c, status, body) ==
    [c EXCEPT !.pc = "raise", !.status = status, !.resp = body]

\* the framework calls the handler; uuid.UUID(route_id) raising ValueError
\* ends the call with 400 before get_conn().  Workers are taken in order.
BeginCall(w) ==
    /\ calls[w].pc = "idle"
    /\ \A v \in Workers : v < w => calls[v].pc # "idle"
    /\ \E op \in IdOps, rid \in RouteIdParams :
        \E b \in (IF op = "PATCH /routes/{id}" THEN CallPatchBodies ELSE {NoBody}) :
            LET c == [Idle EXCEPT !.op = op, !.rid = rid, !.body = b]
            IN  calls' = [calls EXCEPT ![w] =
                    IF UuidRaises(rid)
                        THEN [c EXCEPT !.pc = "done", !.status = 400,
                                       !.resp = InvalidId]
                        ELSE [c EXCEPT !.pc = "connect"]]
    /\ UNCHANGED <<routes, history>>

\* with get_conn() as conn: a new psycopg2 connection
GetConn(w) ==
    /\ calls[w].pc = "connect"
    /\ calls' = [calls EXCEPT ![w].pc = "execute", ![w].conn = "open"]
    /\ UNCHANGED <<routes, history>>

\* get_route: SELECT ... FROM routes WHERE id = %s, fetchone
SelectRoute(w) ==
    LET c == calls[w]
        d == [c EXCEPT !.stmts = @ + 1]
        found == FindById(routes, c.rid.u)
    IN  /\ c.pc = "execute"
        /\ c.op = "GET /routes/{id}"
        /\ calls' = [calls EXCEPT ![w] =
                IF PgUuidRaises(c.rid)
                    THEN Raise(d, 500, [detail |-> "invalid input syntax for type uuid"])
                ELSE IF found = {} THEN Raise(d, 404, NotFound)
                ELSE [d EXCEPT !.pc = "exit", !.status = 200,
                               !.rowcount = Cardinality(found),
                               !.resp = RouteJson(routes[CHOOSE i \in found : TRUE])]]
        /\ UNCHANGED <<routes, history>>

\* update_route: SELECT id FROM routes WHERE id = %s, then the updates list
SelectExists(w) ==
    LET c == calls[w]
        d == [c EXCEPT !.stmts = @ + 1]
        found == FindById(routes, c.rid.u)
    IN  /\ c.pc = "execute"
        /\ c.op = "PATCH /routes/{id}"
        /\ calls' = [calls EXCEPT ![w] =
                IF PgUuidRaises(c.rid)
                    THEN Raise(d, 500, [detail |-> "invalid input syntax for type uuid"])
                ELSE IF found = {} THEN Raise(d, 404, NotFound)
                ELSE IF RouteUpdate(c.body) = {}
                    THEN Raise(d, 400, [detail |-> "No hay campos para actualizar"])
                ELSE [d EXCEPT !.pc = "update", !.rowcount = Cardinality(found)]]
        /\ UNCHANGED <<routes, history>>

\* update_route: UPDATE routes SET ... WHERE id = %s; cur.rowcount is not read
UpdateRoute(w) ==
    LET c == calls[w]
        d == [c EXCEPT !.stmts = @ + 1]
        found == FindById(routes, c.rid.u)
    IN  /\ c.pc = "update"
        /\ ~LockedByOther(w, c.rid.u)
        /\ calls' = [calls EXCEPT ![w] =
                IF found = {}
                    THEN [d EXCEPT !.pc = "exit", !.rowcount = 0, !.status = 200,
                                   !.resp = UpdatedBody]
                ELSE LET i == CHOOSE i \in found : TRUE
                         new == SetClause(routes[i], c.body)
                         e == PgError(routes, i, new)
                     IN  IF e # "" THEN Raise(d, 500, [detail |-> e])
                         ELSE [d EXCEPT !.pc = "exit", !.rowcount = 1,
                                        !.status = 200, !.resp = UpdatedBody,
                                        !.write = [kind |-> "update",
                                                   u |-> c.rid.u, row |-> new]]]
        /\ UNCHANGED <<routes, history>>

\* delete_route: DELETE FROM routes WHERE id = %s, then the rowcount check
DeleteRow(w) ==
    LET c == calls[w]
        d == [c EXCEPT !.stmts = @ + 1]
        found == FindById(routes, c.rid.u)
    IN  /\ c.pc = "execute"
        /\ c.op = "DELETE /routes/{id}"
        /\ PgUuidRaises(c.rid) \/ ~LockedByOther(w, c.rid.u)
        /\ calls' = [calls EXCEPT ![w] =
                IF PgUuidRaises(c.rid)
                    THEN Raise(d, 500, [detail |-> "invalid input syntax for type uuid"])
                ELSE IF found = {}
                    THEN Raise([d EXCEPT !.rowcount = 0], 404, NotFound)
                ELSE [d EXCEPT !.pc = "exit", !.rowcount = Cardinality(found),
                               !.status = 200, !.resp = DeletedBody,
                               !.write = [kind |-> "delete", u |-> c.rid.u]]]
        /\ UNCHANGED <<routes, history>>

\* the committed table once the transaction that wrote write commits
Commit(tbl, write) ==
    IF write.kind = "delete" THEN DeleteWhere(tbl, write.u)
    ELSE IF write.kind = "update"
        THEN [i \in Indexes(tbl) |->
                IF tbl[i].id = write.u THEN write.row ELSE tbl[i]]
    ELSE tbl

\* the with block ends without exception: commit; the handler returns, its
\* frame is released and with it the last reference to the connection
ExitCommit(w) ==
    LET c == calls[w]
    IN  /\ c.pc = "exit"
        /\ routes' = ConnExit(routes, Commit(routes, c.write), FALSE, FALSE)
        /\ calls' = [calls EXCEPT ![w].pc = "done", ![w].write = NoWrite,
                                  ![w].conn = "closed"]
        /\ UNCHANGED history

\* the with block ends with an exception: rollback; the framework answers
\* with the exception still at hand, whose traceback refers to the handler's
\* frame and so to the connection
ExitRollback(w) ==
    LET c == calls[w]
    IN  /\ c.pc = "raise"
        /\ routes' = ConnExit(routes, Commit(routes, c.write), TRUE, FALSE)
        /\ calls' = [calls EXCEPT ![w].pc = "done", ![w].write = NoWrite]
        /\ UNCHANGED history

\* after the response the exception is dropped: nothing refers to the
\* connection any more and its finalizer closes it
DropException(w) ==
    /\ calls[w].pc = "done"
    /\ calls[w].conn = "open"
    /\ calls' = [calls EXCEPT ![w].conn = "closed"]
    /\ UNCHANGED <<routes, history>>

CallsNext ==
    \/ \E w \in Workers : BeginCall(w)
    \/ \E w \in Workers : GetConn(w)
    \/ \E w \in Workers : SelectRoute(w)
    \/ \E w \in Workers : SelectExists(w)
    \/ \E w \in Workers : UpdateRoute(w)
    \/ \E w \in Workers : DeleteRow(w)
    \/ \E w \in Workers : ExitCommit(w)
    \/ \E w \in Workers : ExitRollback(w)
    \/ \E w \in Workers : DropException(w)

CallsSpec == CallsInit /\ [][CallsNext]_vars

----------------------------------------------------------------------------
(* Properties *)

\* the step is a request on the endpoint op
Step(op) == last'.n = last.n + 1 /\ last'.op = op

StoredFlightIds == {routes[i].flight_id : i \in Indexes(routes)}

\* C1: GET /routes/count answers 200 with the number of creates answered 201
\* minus the number of deletes answered 200 since the most recent reset, in
\* every reachable state and in every count request served.
C1_CountIsCreatesMinusDeletes ==
    /\ count_routes(routes).status = 200
    /\ count_routes(routes).body.count = created201 - deleted200
    /\ last.op = "GET /routes/count" =>
        last.status = 200 /\ last.resp.count = created201 - deleted200

C1_Witness ==
    /\ last.op = "GET /routes/count"
    /\ created201 = 1
    /\ deleted200 = 1
    /\ last.resp.count = 0

\* the order of the two timestamps of a body: by instant when both carry a
\* UTC offset, by wall clock otherwise
EndNotAfterStart(b) ==
    LET s == b.plannedStartDate
        e == b.plannedEndDate
    IN  IF Len(s) = 2 /\ Len(e) = 2 THEN e[1] - e[2] <= s[1] - s[2]
        ELSE e[1] <= s[1]

C4_AcceptableBodyIs201 ==
    [][(/\ Step("POST /routes")
        /\ \A f \in StrFields : last'.body[f] # ""
        /\ last'.body.bagCost >= 0
        /\ ~EndNotAfterStart(last'.body)
        /\ last'.body.flightId \notin StoredFlightIds)
       => (last'.status = 201 /\ Len(routes') = Len(routes) + 1)]_vars

\* C5: PATCH /routes/{id} with an empty object answers 400 for every id and
\* leaves every stored row unchanged.
C5_EmptyPatchIs400 ==
    [][(Step("PATCH /routes/{id}") /\ last'.body = NoBody)
       => (last'.status = 400 /\ routes' = routes)]_vars

\* C6: every PATCH /routes/{id} ends in 200, 400 or 404 and, unless it
\* answers 200, leaves all rows unchanged; stated for the requests that reach
\* the UPDATE statement (the id of a stored route, a payload with a field),
\* where an error of the statement is to be answered 400.
C6_PatchOutcomesDocumented ==
    [][(/\ Step("PATCH /routes/{id}")
        /\ last'.rid.form = "canonical"
        /\ FindById(routes, last'.rid.u) # {}
        /\ last'.body # NoBody)
       => (/\ last'.status \in {200, 400}
           /\ last'.status # 200 => routes' = routes)]_vars

\* C7: after a create answered 201 with id X, and before an update, delete or
\* reset touches X, GET /routes/X answers 200 with id X, the createdAt the
\* create returned and every submitted field equal to the submitted value.
C7_GetReturnsSubmitted ==
    \A u \in DOMAIN submitted \ touched :
        LET r == get_route(routes, Canonical(u))
        IN  /\ r.status = 200
            /\ r.body.id = Canonical(u)
            /\ r.body.createdAt = submitted[u].createdAt
            /\ \A f \in DOMAIN submitted[u].body : r.body[f] = submitted[u].body[f]

\* C8: once DELETE /routes/X answered 200, GET, PATCH and DELETE on X answer
\* 404 in every later state, whatever requests come in between.
C8_DeletedStaysGone ==
    /\ \A u \in deletedIds :
        /\ get_route(routes, Canonical(u)).status = 404
        /\ delete_route(routes, Canonical(u)).status = 404
        /\ \A b \in PatchBodies : update_route(routes, Canonical(u), b).status = 404
    /\ (/\ last.op \in {"GET /routes/{id}", "PATCH /routes/{id}"}
        /\ last.rid.form = "canonical"
        /\ last.rid.u \in deletedIds) => last.status = 404

C8_Witness ==
    /\ deletedIds # {}
    /\ last.op = "POST /routes"
    /\ last.status = 201
    /\ Len(routes) = 1
    /\ get_route(routes, last.resp.id).status = 200

\* C9: after a PATCH answered 200 on route X, the fields present in the
\* payload hold the payload's values, every other field of X (id and
\* createdAt included) and every field of every other route keep their
\* values, and the row count does not change.
C9_PatchFrame ==
    [][(Step("PATCH /routes/{id}") /\ last'.status = 200)
       => (/\ Len(routes') = Len(routes)
           /\ \A i \in Indexes(routes) :
                IF routes[i].id = last'.rid.u
                    THEN \A f \in DOMAIN RouteJson(routes[i]) :
                            RouteJson(routes'[i])[f] =
                                IF f \in DOMAIN last'.body THEN last'.body[f]
                                ELSE RouteJson(routes[i])[f]
                    ELSE routes'[i] = routes[i])]_vars

\* C10: no two stored routes have the same flightId.
C10_FlightIdUnique ==
    \A i, j \in Indexes(routes) :
        i # j => routes[i].flight_id # routes[j].flight_id

C10_Witness ==
    /\ last.op = "PATCH /routes/{id}"
    /\ "flightId" \in DOMAIN last.body
    /\ last.body.flightId \in StoredFlightIds
    /\ last.status = 500
    /\ Len(routes) = 2

\* the rows a request with filter parameter flight is to select from: those
\* whose flightId equals the supplied string, all rows when none is supplied
RoutesWithFlight(tbl, flight) ==
    IF flight = <<>> THEN tbl
    ELSE SelectSeq(tbl, LAMBDA r : r.flight_id = flight[1])

\* C11: GET /routes with skip = k >= 0, limit = n >= 0 and an optional filter f
\* answers 200 with entries k+1 .. k+n (fewer when the sequence is shorter) of
\* the stored routes whose flightId equals f (all of them without a filter)
\* in an order of non-increasing createdAt, and with a supplied filter f every
\* returned route has flightId f.
C11_ListIsPageOfMatchingRoutes ==
    (last.op = "GET /routes" /\ last.body.skip >= 0 /\ last.body.limit >= 0) =>
        /\ last.status = 200
        /\ \E s \in OrderByCreatedAtDesc(RoutesWithFlight(routes, last.body.flight)) :
            LET k == last.body.skip
                n == last.body.limit
                len == IF Len(s) - k < 0 THEN 0
                       ELSE IF Len(s) - k < n THEN Len(s) - k ELSE n
            IN  /\ Len(last.resp) = len
                /\ \A i \in 1..len : last.resp[i] = RouteJson(s[k + i])
        /\ last.body.flight # <<>> =>
            \A i \in 1..Len(last.resp) : last.resp[i].flightId = last.body.flight[1]

\* C12: GET /routes answers 200 with an array for every integer skip and limit
\* and every flight value, and the array is empty when no stored route matches.
C12_ListNeverFails ==
    last.op = "GET /routes" =>
        /\ last.status = 200
        /\ DOMAIN last.resp = 1..Len(last.resp)
        /\ RoutesWithFlight(routes, last.body.flight) = <<>> => last.resp = <<>>

\* a path parameter that is not the text of a UUID
Unparsable(rid) == rid.form = "garbage"

\* C13: in GET, PATCH and DELETE on /routes/{id}, every step of a call whose id
\* does not parse as a UUID ends it with 400 "ID de ruta invalido" (not the 404
\* of an unknown id, not the 400 of an empty update), with no connection
\* opened and no statement executed, and leaves the stored routes unchanged.
C13_UnparsableIdIs400 ==
    [][\A w \in Workers :
        (calls'[w] # calls[w] /\ Unparsable(calls'[w].rid)) =>
            /\ calls'[w].op \in IdOps
            /\ calls'[w].pc = "done"
            /\ calls'[w].status = 400
            /\ calls'[w].resp = InvalidId
            /\ calls'[w].conn = "none"
            /\ calls'[w].stmts = 0
            /\ routes' = routes]_vars

C13_Witness ==
    /\ routes # <<>>
    /\ \E w \in Workers :
        /\ calls[w].op = "PATCH /routes/{id}"
        /\ Unparsable(calls[w].rid)
        /\ calls[w].body = <<>>
        /\ calls[w].status = 400
    /\ \E w \in Workers :
        /\ calls[w].op = "DELETE /routes/{id}"
        /\ Unparsable(calls[w].rid)
        /\ calls[w].status = 400

ResetPaths == {"POST /reset", "POST /routes/reset"}

\* C14: right after POST /reset or POST /routes/reset the answer is 200, the
\* count is 0, every list request with non-negative skip and limit answers
\* the empty array, GET on every id created so far answers 404, and every
\* body that was accepted before is accepted again with 201.
C14_ResetEmptiesTable ==
    last.op \in ResetPaths =>
        /\ last.status = 200
        /\ count_routes(routes).status = 200
        /\ count_routes(routes).body.count = 0
        /\ \A q \in ListQueries :
            (q.skip >= 0 /\ q.limit >= 0) =>
                \A sorted \in OrderByCreatedAtDesc(WhereFlight(routes, q.flight)) :
                    /\ list_routes(routes, q, sorted).status = 200
                    /\ list_routes(routes, q, sorted).body = <<>>
        /\ \A u \in 1..issued : get_route(routes, Canonical(u)).status = 404
        /\ \A u \in DOMAIN submitted :
            \A t \in {now, now + 1} :
                create_route(routes, submitted[u].body, uuid4(issued), t).status = 201

C14_Witness ==
    /\ last.op \in ResetPaths
    /\ Cardinality(DOMAIN submitted) = 2

\* C15: a PATCH call that has answered 200 has updated a stored row: its
\* UPDATE statement matched one row.
C15_Patch200HasUpdatedARow ==
    \A w \in Workers :
        (calls[w].op = "PATCH /routes/{id}" /\ calls[w].pc = "done"
            /\ calls[w].status = 200) => calls[w].rowcount = 1

\* C16: once a call has answered, the connection it opened is closed.
C16_ConnectionClosedAtResponse ==
    \A w \in Workers : calls[w].pc = "done" => calls[w].conn # "open"

====
